---- MODULE Spec2Model ----
(***************************************************************************)
(* netlab: a PING/PONG lab.  The module models                             *)
(*   - the concurrency-bounded runner run_many and the two ping            *)
(*     primitives tcp_ping / udp_ping (tcp_client.py, udp_client.py),      *)
(*   - the stream server's per-connection handler handle_tcp (server.py),  *)
(*   - the datagram server's PongUDP.datagram_received (server.py).        *)
(* Payloads are sequences of byte values; text is a sequence of code       *)
(* points.  Python code between two awaits runs without preemption, so     *)
(* every action is one such segment.                                       *)
(***************************************************************************)
EXTENDS Integers, Sequences, FiniteSets, TLC

\* ------------------------------------------------------------------ bounds
MaxCount == 3
MaxConc == 2
MaxConn == 2
MaxDgram == 3
MaxTime == 3
MaxTimeout == 2
BothCount == 2

\* ------------------------------------------------------ bytes and strings
LF == <<10>>
SP == <<32>>
BAD == <<255>>
PING == <<80, 73, 78, 71>>
PONG == <<80, 79, 78, 71>>
ERR == <<69, 82, 82>>
HI == <<72, 73>>

\* bytes.decode(): UTF-8.  Over the byte values used here every byte below
\* 128 is one code point and 0xFF is never valid, so decoding fails exactly
\* when such a byte is present (UnicodeDecodeError).
Decodable(b) == \A k \in 1..Len(b) : b[k] < 128
Decode(b) == [k \in 1..Len(b) |-> b[k]]

\* the characters str.strip() removes (ASCII range)
IsSpace(c) == c \in {9, 10, 11, 12, 13, 28, 29, 30, 31, 32}

RECURSIVE LStrip(_)
LStrip(s) == IF s # <<>> /\ IsSpace(Head(s)) THEN LStrip(Tail(s)) ELSE s

RECURSIVE RStrip(_)
RStrip(s) ==
  IF s # <<>> /\ IsSpace(s[Len(s)]) THEN RStrip(SubSeq(s, 1, Len(s) - 1)) ELSE s

Strip(s) == RStrip(LStrip(s))

Max(a, b) == IF a >= b THEN a ELSE b
Min(a, b) == IF a <= b THEN a ELSE b

\* ------------------------------------------------------------------ state
VARIABLES
  proto,        \* which client module runs: "tcp" or "udp"
  count,        \* run_many argument
  concurrency,  \* run_many argument
  burst,        \* run_many argument
  rpc,          \* run_many: "called", "gather", "returned", "raised"
  sem,          \* the asyncio.Semaphore: [alloc, value, waiters]
  wpc,          \* per task: position of worker / limited_worker
  sock,         \* per attempt: connection or ephemeral socket
  fut,          \* per udp attempt: the on_response future
  pend,         \* per tcp attempt: outcome held while the finally block awaits
  results,      \* the results list
  appends,      \* per attempt: number of results.append calls it made
  retval,       \* what run_many returned
  pingMessage,  \* run_many argument `message`: the text every ping sends
  timeout,      \* run_many argument, in clock ticks (0: less than one tick)
  now,          \* time.perf_counter(), in ticks
  obs,          \* per attempt: the instants of its ping and what it returned
  first,        \* per udp attempt: the first event its protocol was told of
                \* (a history variable, recorded by the timed runner only)
  \* --- two run_many calls on one event loop, per call ("tcp", "udp")
  bconc,        \* the concurrency argument
  brpc,         \* run_many: "called", "gather", "returned", "raised"
  bsem,         \* the call's asyncio.Semaphore
  bwpc,         \* per task of the call: position of limited_worker
  bresults,     \* the call's results list
  bret,         \* what the call returned
  \* --- the stream server, per connection
  cfull,        \* everything the client writes on the connection
  cmsg,         \* what of it has not reached the server yet
  cstate,       \* the client's end: "open", "closed" (orderly), "reset"
  hpc,          \* handle_tcp: "idle", "read", "wait_closed", "done", "crashed"
  sconn,        \* the server's transport: "none", "open", "closed"
  rbuf,         \* the StreamReader's buffer
  reof,         \* the StreamReader was fed EOF
  rexc,         \* the StreamReader holds a connection-lost exception
  sout,         \* the replies written to the client, in order
  nread,        \* number of reader.read() calls that came back
  got,          \* what the handler's reader.read() returned
  lsock,        \* the listening socket: "none", "listening", "closed"
  tsrv,         \* run_tcp_server: "off", "serving", "wait_closed", "cancelled"
  \* --- the datagram server
  utransport,   \* PongUDP.transport: "none", "bound", "closing", "closed"
  dsent,        \* number of datagrams the clients have sent
  dwire,        \* datagrams on their way to the server
  handled,      \* datagrams given to datagram_received, in order
  usent,        \* the server's sendto calls, in order
  udelivered,   \* which of them have reached their destination
  usrv,         \* run_udp_server: "off", "starting", "serving", "sleep0",
                \* "finished"
  uready        \* callbacks the event loop has queued for the datagram server

tcpVars == <<cfull, cmsg, cstate, hpc, sconn, rbuf, reof, rexc, sout, nread,
            got, lsock, tsrv>>

udpVars == <<utransport, dsent, dwire, handled, usent, udelivered, usrv, uready>>

srvVars == <<tcpVars, udpVars>>

argVars == <<proto, count, concurrency, burst, pingMessage, timeout>>

bothVars == <<bconc, brpc, bsem, bwpc, bresults, bret>>

runVars == <<argVars, rpc, sem, wpc, sock, fut, pend, results, appends, retval,
             now, obs, first, bothVars>>

vars == <<runVars, tcpVars, udpVars>>

Conns == 1..MaxConn

Addrs == {"A", "B"}

Attempts == 1..MaxCount

NaN == "nan"
RTT == "rtt"

\* ------------------------------------------------- the peer of the client
\* What reader.readline() can hand to tcp_ping: a line ending in \n, or what
\* was received before the peer closed (possibly nothing).
TcpReplies == {PONG \o LF, ERR \o LF, SP \o PONG \o LF, PONG, <<>>, BAD \o LF}

\* The datagrams that can reach the ephemeral socket of udp_ping.
UdpReplies == {PONG, ERR, PONG \o LF, <<>>, BAD}

\* ---------------------------------------------------------------- run_many
\* a short-circuit that lets count = 0 through
ShortCircuitStrict(n) == n < 0

\* `if count <= 0: return []`
ShortCircuit(n) == n <= 0

\* a limit taken as given
LimitRaw(c) == c

\* `concurrency = max(1, concurrency)`
Limit(c) == Max(1, c)

\* a semaphore created with one permit too many
NewSemOffByOne(b, c) ==
  IF b THEN [alloc |-> FALSE, value |-> 0, waiters |-> <<>>]
       ELSE [alloc |-> TRUE, value |-> Limit(c) + 1, waiters |-> <<>>]

\* burst mode that goes through the semaphore as well
NewSemAlways(b, c) == [alloc |-> TRUE, value |-> Limit(c), waiters |-> <<>>]

\* `if burst: ... else: sem = asyncio.Semaphore(concurrency)`
NewSem(b, c) ==
  IF b THEN [alloc |-> FALSE, value |-> 0, waiters |-> <<>>]
       ELSE [alloc |-> TRUE, value |-> Limit(c), waiters |-> <<>>]

\* Semaphore.locked(): no permit left, or somebody is queued before us
Locked(s) == s.value = 0 \/ s.waiters # <<>>

\* Semaphore.release(), run by `async with sem` on exit: the permit goes to
\* the longest-waiting task if there is one, else back to the counter.
Release(s) ==
  IF s.waiters # <<>>
    THEN [s EXCEPT !.waiters = Tail(@)]
    ELSE [s EXCEPT !.value = @ + 1]

\* the task whose acquire() is completed by Release(s), 0 when none
Woken(s) == IF s.waiters # <<>> THEN Head(s.waiters) ELSE 0

\* ping_result as worker sees it: tcp_ping / udp_ping returned v
\* (`rtt = await ..._ping(...)`, `results.append(rtt)`), then the exit of
\* `async with sem` in throttled mode, then the task is done.
Finish(i, v) ==
  /\ results' = Append(results, v)
  /\ appends' = [appends EXCEPT ![i] = @ + 1]
  /\ sem' = IF sem.alloc THEN Release(sem) ELSE sem
  /\ wpc' = [k \in Attempts |->
               IF k = i THEN "done"
               ELSE IF sem.alloc /\ k = Woken(sem) THEN "granted"
               ELSE wpc[k]]

\* the ping raised: worker appends nothing, `async with sem` still releases,
\* and the task ends with the exception.
Fail(i) ==
  /\ sem' = IF sem.alloc THEN Release(sem) ELSE sem
  /\ wpc' = [k \in Attempts |->
               IF k = i THEN "failed"
               ELSE IF sem.alloc /\ k = Woken(sem) THEN "granted"
               ELSE wpc[k]]
  /\ UNCHANGED <<results, appends>>

\* `start = time.perf_counter()`: the first statement of tcp_ping and (after
\* the future is created) of udp_ping, run as soon as worker calls the ping
Started(o) == [o EXCEPT !.start = now]

\* open_connection / create_datagram_endpoint has returned
Established(o) == [o EXCEPT !.conn = now]

\* `end = time.perf_counter()`
Received(o) == [o EXCEPT !.recv = now]

\* the ping returns v, or raises (v = "exc")
Return(o, v) == [o EXCEPT !.ret = now, !.out = v]

\* a wait_for timer that fires without waiting
TimerDueAtOnce(i) == TRUE

\* `asyncio.wait_for(..., timeout)`: the timer is set when the wait begins,
\* which is in the segment where the connection or endpoint was established
TimerDue(i) == now >= obs[i].conn + timeout

\* run_many up to `await asyncio.gather(*tasks)`
RunMany ==
  /\ rpc = "called"
  /\ IF ShortCircuit(count)
       THEN /\ rpc' = "returned"
            /\ retval' = <<>>
            /\ UNCHANGED <<sem, wpc, results>>
       ELSE /\ results' = <<>>
            /\ sem' = NewSem(burst, concurrency)
            /\ wpc' = [k \in Attempts |-> IF k <= count THEN "new" ELSE "absent"]
            /\ rpc' = "gather"
            /\ UNCHANGED retval
  /\ UNCHANGED <<srvVars, bothVars, argVars, now, obs, first, sock, fut, pend, appends>>

\* first step of a task: worker(i) in burst mode; limited_worker(i) enters
\* `async with sem` in throttled mode and either gets a permit or queues.
WorkerStart(i) ==
  /\ wpc[i] = "new"
  /\ IF ~sem.alloc
       THEN /\ wpc' = [wpc EXCEPT ![i] = "connecting"]
            /\ obs' = [obs EXCEPT ![i] = Started(@)]
            /\ UNCHANGED sem
       ELSE IF ~Locked(sem)
         THEN /\ sem' = [sem EXCEPT !.value = @ - 1]
              /\ wpc' = [wpc EXCEPT ![i] = "connecting"]
              /\ obs' = [obs EXCEPT ![i] = Started(@)]
         ELSE /\ sem' = [sem EXCEPT !.waiters = Append(@, i)]
              /\ wpc' = [wpc EXCEPT ![i] = "acquire"]
              /\ UNCHANGED obs
  /\ UNCHANGED <<srvVars, bothVars, argVars, now, first, rpc, sock, fut, pend,
                 results, appends, retval>>

\* a queued limited_worker resumes holding the permit handed to it
SemGranted(i) ==
  /\ wpc[i] = "granted"
  /\ wpc' = [wpc EXCEPT ![i] = "connecting"]
  /\ obs' = [obs EXCEPT ![i] = Started(@)]
  /\ UNCHANGED <<srvVars, bothVars, argVars, now, first, rpc, sem, sock, fut, pend,
                 results, appends, retval>>

\* ---------------------------------------------------------------- tcp_ping
\* `response = data.decode().strip()`, `if response != "PONG"`: the value
\* tcp_ping is about to return for the line `data`, or "exc" when decode()
\* raises UnicodeDecodeError, which no except clause of tcp_ping catches.
TcpClassify(data) ==
  IF ~Decodable(data) THEN "exc"
  ELSE IF Strip(Decode(data)) # PONG THEN NaN
  ELSE RTT

\* `await asyncio.open_connection(host, port)` fails (ConnectionRefusedError,
\* OSError): writer is still None, the except clause returns NaN and the
\* finally block has nothing to close.
TcpConnectFail(i) ==
  /\ proto = "tcp"
  /\ wpc[i] = "connecting"
  /\ Finish(i, NaN)
  /\ obs' = [obs EXCEPT ![i] = Return(@, NaN)]
  /\ UNCHANGED <<srvVars, bothVars, argVars, now, first, rpc, sock, fut, pend, retval>>

\* open_connection succeeds; `writer.write(...)`, `await writer.drain()`.
\* drainOk = FALSE: drain raises an OSError (connection reset), caught as a
\* connection failure; the finally block then closes the writer.
TcpConnected(i, drainOk) ==
  /\ proto = "tcp"
  /\ wpc[i] = "connecting"
  /\ obs' = [obs EXCEPT ![i] = Established(@)]
  /\ IF drainOk
       THEN /\ sock' = [sock EXCEPT ![i] = "open"]
            /\ wpc' = [wpc EXCEPT ![i] = "reading"]
            /\ UNCHANGED pend
       ELSE /\ sock' = [sock EXCEPT ![i] = "closing"]
            /\ wpc' = [wpc EXCEPT ![i] = "closing"]
            /\ pend' = [pend EXCEPT ![i] = NaN]
  /\ UNCHANGED <<srvVars, bothVars, argVars, now, first, rpc, sem, fut, results,
                 appends, retval>>

\* `data = await asyncio.wait_for(reader.readline(), timeout)` returns data;
\* classify it; the finally block calls writer.close() and awaits
\* writer.wait_closed().
TcpRead(i, data) ==
  /\ proto = "tcp"
  /\ wpc[i] = "reading"
  /\ pend' = [pend EXCEPT ![i] = TcpClassify(data)]
  /\ obs' = [obs EXCEPT ![i] = Received(@)]
  /\ sock' = [sock EXCEPT ![i] = "closing"]
  /\ wpc' = [wpc EXCEPT ![i] = "closing"]
  /\ UNCHANGED <<srvVars, bothVars, argVars, now, first, rpc, sem, fut, results,
                 appends, retval>>

\* readline raises an OSError (connection reset): the except clause returns
\* NaN; then the finally block.
TcpReadFail(i) ==
  /\ proto = "tcp"
  /\ wpc[i] = "reading"
  /\ pend' = [pend EXCEPT ![i] = NaN]
  /\ sock' = [sock EXCEPT ![i] = "closing"]
  /\ wpc' = [wpc EXCEPT ![i] = "closing"]
  /\ UNCHANGED <<srvVars, bothVars, argVars, now, obs, first, rpc, sem, fut, results,
                 appends, retval>>

\* the timeout expires before a line has come: wait_for cancels readline and
\* raises asyncio.TimeoutError; NaN; then the finally block.
TcpTimeout(i) ==
  /\ proto = "tcp"
  /\ wpc[i] = "reading"
  /\ TimerDue(i)
  /\ pend' = [pend EXCEPT ![i] = NaN]
  /\ sock' = [sock EXCEPT ![i] = "closing"]
  /\ wpc' = [wpc EXCEPT ![i] = "closing"]
  /\ UNCHANGED <<srvVars, bothVars, argVars, now, obs, first, rpc, sem, fut, results,
                 appends, retval>>

\* `await writer.wait_closed()` is over (an exception of it is swallowed):
\* tcp_ping returns the pending value, or the pending exception propagates.
TcpClosed(i) ==
  /\ proto = "tcp"
  /\ wpc[i] = "closing"
  /\ sock' = [sock EXCEPT ![i] = "closed"]
  /\ IF pend[i] = "exc" THEN Fail(i) ELSE Finish(i, pend[i])
  /\ obs' = [obs EXCEPT ![i] = Return(@, pend[i])]
  /\ UNCHANGED <<srvVars, bothVars, argVars, now, first, rpc, fut, pend, retval>>

\* ---------------------------------------------------------------- udp_ping
\* `if response != "PONG"` on the resolved future: a result gives an RTT or
\* NaN, an exception set by error_received is caught by `except Exception`.
UdpClassify(f) ==
  IF f.kind = "exception" THEN NaN
  ELSE IF f.value # PONG THEN NaN
  ELSE RTT

\* `await loop.create_datagram_endpoint(...)` raises OSError: return NaN
\* (no transport exists yet).
UdpEndpointFail(i) ==
  /\ proto = "udp"
  /\ wpc[i] = "connecting"
  /\ Finish(i, NaN)
  /\ obs' = [obs EXCEPT ![i] = Return(@, NaN)]
  /\ UNCHANGED <<srvVars, bothVars, argVars, now, first, rpc, sock, fut, pend, retval>>

\* the endpoint is created: connection_made sends the datagram, udp_ping
\* goes on to `await asyncio.wait_for(on_response, timeout)`.
UdpEndpoint(i) ==
  /\ proto = "udp"
  /\ wpc[i] = "connecting"
  /\ sock' = [sock EXCEPT ![i] = "open"]
  /\ wpc' = [wpc EXCEPT ![i] = "reading"]
  /\ obs' = [obs EXCEPT ![i] = Established(@)]
  /\ UNCHANGED <<srvVars, bothVars, argVars, now, first, rpc, sem, fut, pend,
                 results, appends, retval>>

\* the arrival of a reply datagram as an event: its text, trimmed, or that
\* it is not text
ReplyEvent(data) ==
  IF Decodable(data) THEN [ev |-> "reply", text |-> Strip(Decode(data))]
  ELSE [ev |-> "badreply", text |-> <<>>]

\* UDPClientProtocol.datagram_received: `if not on_response.done():
\* on_response.set_result(data.decode().strip())`.  When decode() raises, the
\* exception ends the callback and the future stays as it was.
UdpDatagramReceived(i, data) ==
  /\ proto = "udp"
  /\ wpc[i] = "reading"
  /\ sock[i] = "open"
  /\ fut' = IF fut[i].kind = "pending" /\ Decodable(data)
              THEN [fut EXCEPT ![i] = [kind |-> "result", value |-> Strip(Decode(data))]]
              ELSE fut
  /\ first' = IF first[i].ev = "none"
                THEN [first EXCEPT ![i] = ReplyEvent(data)]
                ELSE first
  /\ UNCHANGED <<srvVars, bothVars, argVars, now, obs, rpc, sem, wpc, sock, pend,
                 results, appends, retval>>

\* UDPClientProtocol.error_received: `if not on_response.done():
\* on_response.set_exception(exc)`
UdpErrorReceived(i) ==
  /\ proto = "udp"
  /\ wpc[i] = "reading"
  /\ sock[i] = "open"
  /\ fut' = IF fut[i].kind = "pending"
              THEN [fut EXCEPT ![i] = [kind |-> "exception", value |-> <<>>]]
              ELSE fut
  /\ first' = IF first[i].ev = "none"
                THEN [first EXCEPT ![i] = [ev |-> "error", text |-> <<>>]]
                ELSE first
  /\ UNCHANGED <<srvVars, bothVars, argVars, now, obs, rpc, sem, wpc, sock, pend,
                 results, appends, retval>>

\* wait_for returns because on_response is resolved: classify, then
\* `finally: transport.close()`, and udp_ping returns.
UdpResume(i) ==
  /\ proto = "udp"
  /\ wpc[i] = "reading"
  /\ fut[i].kind # "pending"
  /\ sock' = [sock EXCEPT ![i] = "closed"]
  /\ Finish(i, UdpClassify(fut[i]))
  /\ obs' = [obs EXCEPT ![i] = Return(Received(@), UdpClassify(fut[i]))]
  /\ UNCHANGED <<srvVars, bothVars, argVars, now, first, rpc, fut, pend, retval>>

\* a timeout path that returns without closing the transport
UdpTimeoutLeak(i) ==
  /\ proto = "udp"
  /\ wpc[i] = "reading"
  /\ fut[i].kind = "pending"
  /\ TimerDue(i)
  /\ fut' = [fut EXCEPT ![i] = [kind |-> "cancelled", value |-> <<>>]]
  /\ first' = IF first[i].ev = "none"
                THEN [first EXCEPT ![i] = [ev |-> "timeout", text |-> <<>>]]
                ELSE first
  /\ Finish(i, NaN)
  /\ obs' = [obs EXCEPT ![i] = Return(@, NaN)]
  /\ UNCHANGED <<srvVars, bothVars, argVars, now, rpc, pend, retval, sock>>

\* the timeout expires with on_response unresolved: wait_for cancels the
\* future and raises asyncio.TimeoutError; NaN; transport.close().
UdpTimeout(i) ==
  /\ proto = "udp"
  /\ wpc[i] = "reading"
  /\ fut[i].kind = "pending"
  /\ TimerDue(i)
  /\ fut' = [fut EXCEPT ![i] = [kind |-> "cancelled", value |-> <<>>]]
  /\ first' = IF first[i].ev = "none"
                THEN [first EXCEPT ![i] = [ev |-> "timeout", text |-> <<>>]]
                ELSE first
  /\ sock' = [sock EXCEPT ![i] = "closed"]
  /\ Finish(i, NaN)
  /\ obs' = [obs EXCEPT ![i] = Return(@, NaN)]
  /\ UNCHANGED <<srvVars, bothVars, argVars, now, rpc, pend, retval>>

\* ------------------------------------------------------- gather and return
\* `await asyncio.gather(*tasks)` with every task finished normally, then
\* `return results`.
GatherReturn ==
  /\ rpc = "gather"
  /\ \A i \in Attempts : i <= count => wpc[i] = "done"
  /\ rpc' = "returned"
  /\ retval' = results
  /\ UNCHANGED <<srvVars, bothVars, argVars, now, obs, first, sem, wpc, sock, fut, pend,
                 results, appends>>

\* gather is called without return_exceptions: the first task that ends with
\* an exception makes the await raise in run_many, which has no handler; the
\* other tasks are not cancelled and go on running.
GatherRaise ==
  /\ rpc = "gather"
  /\ \E i \in Attempts : wpc[i] = "failed"
  /\ rpc' = "raised"
  /\ UNCHANGED <<srvVars, bothVars, argVars, now, obs, first, sem, wpc, sock, fut, pend,
                 results, appends, retval>>

\* ------------------------------------- two run_many calls on one event loop
\* test_both_server: run_many of tcp_client and run_many of udp_client as two
\* tasks of one event loop, both throttled.  Each call has its own locals
\* `results` and `sem`.  A ping is one step from its start to its end here:
\* it returns an RTT or NaN, or raises (the decode error of tcp_ping).
Runs == {"tcp", "udp"}

BothAttempts == 1..BothCount

BothCalled ==
  /\ brpc = [r \in Runs |-> "called"]
  /\ bsem = [r \in Runs |-> [alloc |-> FALSE, value |-> 0, waiters |-> <<>>]]
  /\ bwpc = [r \in Runs |-> [k \in BothAttempts |-> "absent"]]
  /\ bresults = [r \in Runs |-> <<>>]
  /\ bret = [r \in Runs |-> <<>>]

\* run_many of call r up to `await asyncio.gather(*tasks)`
BothRunMany(r) ==
  /\ brpc[r] = "called"
  /\ ~ShortCircuit(BothCount)
  /\ bresults' = [bresults EXCEPT ![r] = <<>>]
  /\ bsem' = [bsem EXCEPT ![r] = NewSem(FALSE, bconc[r])]
  /\ bwpc' = [bwpc EXCEPT ![r] = [k \in BothAttempts |-> "new"]]
  /\ brpc' = [brpc EXCEPT ![r] = "gather"]
  /\ UNCHANGED <<srvVars, argVars, rpc, sem, wpc, sock, fut, pend, results,
                 appends, retval, now, obs, first, bconc, bret>>

\* limited_worker(i) of call r enters `async with sem`
BothWorkerStart(r, i) ==
  /\ bwpc[r][i] = "new"
  /\ IF ~Locked(bsem[r])
       THEN /\ bsem' = [bsem EXCEPT ![r].value = @ - 1]
            /\ bwpc' = [bwpc EXCEPT ![r][i] = "flight"]
       ELSE /\ bsem' = [bsem EXCEPT ![r].waiters = Append(@, i)]
            /\ bwpc' = [bwpc EXCEPT ![r][i] = "acquire"]
  /\ UNCHANGED <<srvVars, argVars, rpc, sem, wpc, sock, fut, pend, results,
                 appends, retval, now, obs, first, bconc, brpc, bresults, bret>>

\* a queued limited_worker of call r resumes with the permit handed to it
BothSemGranted(r, i) ==
  /\ bwpc[r][i] = "granted"
  /\ bwpc' = [bwpc EXCEPT ![r][i] = "flight"]
  /\ UNCHANGED <<srvVars, argVars, rpc, sem, wpc, sock, fut, pend, results,
                 appends, retval, now, obs, first, bconc, brpc, bsem, bresults,
                 bret>>

\* the tasks of call r after task i has left `async with sem`
BothAfterRelease(r, i, end) ==
  [k \in BothAttempts |->
     IF k = i THEN end
     ELSE IF k = Woken(bsem[r]) THEN "granted"
     ELSE bwpc[r][k]]

\* the ping of task i of call r returns v: `results.append(rtt)`, release
BothPingDone(r, i, v) ==
  /\ bwpc[r][i] = "flight"
  /\ bresults' = [bresults EXCEPT ![r] = Append(@, [run |-> r, task |-> i, value |-> v])]
  /\ bsem' = [bsem EXCEPT ![r] = Release(@)]
  /\ bwpc' = [bwpc EXCEPT ![r] = BothAfterRelease(r, i, "done")]
  /\ UNCHANGED <<srvVars, argVars, rpc, sem, wpc, sock, fut, pend, results,
                 appends, retval, now, obs, first, bconc, brpc, bret>>

\* the ping of task i of the stream call raises (data.decode() in tcp_ping):
\* nothing is appended, the permit is released, the task ends with the
\* exception
BothPingRaise(r, i) ==
  /\ r = "tcp"
  /\ bwpc[r][i] = "flight"
  /\ bsem' = [bsem EXCEPT ![r] = Release(@)]
  /\ bwpc' = [bwpc EXCEPT ![r] = BothAfterRelease(r, i, "failed")]
  /\ UNCHANGED <<srvVars, argVars, rpc, sem, wpc, sock, fut, pend, results,
                 appends, retval, now, obs, first, bconc, brpc, bresults, bret>>

\* gather of call r: every task done, `return results`
BothGatherReturn(r) ==
  /\ brpc[r] = "gather"
  /\ \A i \in BothAttempts : bwpc[r][i] = "done"
  /\ brpc' = [brpc EXCEPT ![r] = "returned"]
  /\ bret' = [bret EXCEPT ![r] = bresults[r]]
  /\ UNCHANGED <<srvVars, argVars, rpc, sem, wpc, sock, fut, pend, results,
                 appends, retval, now, obs, first, bconc, bsem, bwpc, bresults>>

\* gather of call r: a task ended with an exception, the await raises
BothGatherRaise(r) ==
  /\ brpc[r] = "gather"
  /\ \E i \in BothAttempts : bwpc[r][i] = "failed"
  /\ brpc' = [brpc EXCEPT ![r] = "raised"]
  /\ UNCHANGED <<srvVars, argVars, rpc, sem, wpc, sock, fut, pend, results,
                 appends, retval, now, obs, first, bconc, bsem, bwpc, bresults,
                 bret>>

\* ------------------------------------------------------ the runner's spec
Pending == [kind |-> "pending", value |-> <<>>]

NoObs == [start |-> 0, conn |-> 0, recv |-> 0, ret |-> 0, out |-> "none"]

NoEvent == [ev |-> "none", text |-> <<>>]

\* the first event is not recorded
Unobserved == [ev |-> "unobserved", text |-> <<>>]

\* run_many has just been called: nothing of it has run yet
RunCalled ==
  /\ rpc = "called"
  /\ sem = [alloc |-> FALSE, value |-> 0, waiters |-> <<>>]
  /\ wpc = [k \in Attempts |-> "absent"]
  /\ sock = [k \in Attempts |-> "none"]
  /\ fut = [k \in Attempts |-> Pending]
  /\ pend = [k \in Attempts |-> "none"]
  /\ results = <<>>
  /\ appends = [k \in Attempts |-> 0]
  /\ retval = <<>>
  /\ now = 0
  /\ obs = [k \in Attempts |-> NoObs]
  /\ BothCalled
  /\ bconc = [r \in Runs |-> 1]

\* The untimed runner: the clock stands still and the timeout is shorter than
\* one tick, so a timer may fire at any moment after it was set.
InitRun ==
  /\ proto \in {"tcp", "udp"}
  /\ count \in (0 - 1)..MaxCount
  /\ concurrency \in (0 - 1)..MaxConc
  /\ burst \in BOOLEAN
  /\ pingMessage = PING
  /\ timeout = 0
  /\ first = [k \in Attempts |-> Unobserved]
  /\ RunCalled

NextRun ==
  \/ RunMany
  \/ \E i \in Attempts : WorkerStart(i)
  \/ \E i \in Attempts : SemGranted(i)
  \/ \E i \in Attempts : TcpConnectFail(i)
  \/ \E i \in Attempts, ok \in BOOLEAN : TcpConnected(i, ok)
  \/ \E i \in Attempts, data \in TcpReplies : TcpRead(i, data)
  \/ \E i \in Attempts : TcpReadFail(i)
  \/ \E i \in Attempts : TcpTimeout(i)
  \/ \E i \in Attempts : TcpClosed(i)
  \/ \E i \in Attempts : UdpEndpointFail(i)
  \/ \E i \in Attempts : UdpEndpoint(i)
  \/ \E i \in Attempts, data \in UdpReplies : UdpDatagramReceived(i, data)
  \/ \E i \in Attempts : UdpErrorReceived(i)
  \/ \E i \in Attempts : UdpResume(i)
  \/ \E i \in Attempts : UdpTimeout(i)
  \/ GatherReturn
  \/ GatherRaise

\* the servers before anything is started
TcpIdle ==
  /\ cfull = [c \in Conns |-> <<>>]
  /\ cmsg = [c \in Conns |-> <<>>]
  /\ cstate = [c \in Conns |-> "open"]
  /\ hpc = [c \in Conns |-> "idle"]
  /\ sconn = [c \in Conns |-> "none"]
  /\ rbuf = [c \in Conns |-> <<>>]
  /\ reof = [c \in Conns |-> FALSE]
  /\ rexc = [c \in Conns |-> FALSE]
  /\ sout = [c \in Conns |-> <<>>]
  /\ nread = [c \in Conns |-> 0]
  /\ got = [c \in Conns |-> <<>>]
  /\ lsock = "none"
  /\ tsrv = "off"

UdpIdle ==
  /\ utransport = "none"
  /\ dsent = 0
  /\ dwire = {}
  /\ handled = <<>>
  /\ usent = <<>>
  /\ udelivered = {}
  /\ usrv = "off"
  /\ uready = <<>>

Init == InitRun /\ TcpIdle /\ UdpIdle

Next == NextRun

Spec == Init /\ [][Next]_vars

\* The event loop runs every callback that is ready, timers fire, and the
\* operating system ends every connection attempt: while a step of the
\* runner is possible, one is eventually taken.
SpecFair == Spec /\ WF_vars(Next)

\* --------------------------------------------------------- the timed runner
\* time.perf_counter() and the event loop's clock advance
Tick ==
  /\ now < MaxTime
  /\ now' = now + 1
  /\ UNCHANGED <<srvVars, bothVars, argVars, rpc, sem, wpc, sock, fut, pend, results,
                 appends, retval, obs, first>>

\* run_many for a single ping, with a timeout of at least one tick
InitTimed ==
  /\ proto \in {"tcp", "udp"}
  /\ count = 1
  /\ concurrency = 1
  /\ burst \in BOOLEAN
  /\ pingMessage = PING
  /\ timeout \in 1..MaxTimeout
  /\ first = [k \in Attempts |-> NoEvent]
  /\ RunCalled
  /\ TcpIdle
  /\ UdpIdle

NextTimed ==
  \/ Tick
  \/ RunMany
  \/ WorkerStart(1)
  \/ TcpConnectFail(1)
  \/ \E ok \in BOOLEAN : TcpConnected(1, ok)
  \/ \E data \in TcpReplies : TcpRead(1, data)
  \/ TcpReadFail(1)
  \/ TcpTimeout(1)
  \/ TcpClosed(1)
  \/ UdpEndpointFail(1)
  \/ UdpEndpoint(1)
  \/ \E data \in UdpReplies : UdpDatagramReceived(1, data)
  \/ UdpErrorReceived(1)
  \/ UdpResume(1)
  \/ UdpTimeout(1)
  \/ GatherReturn
  \/ GatherRaise

SpecTimed == InitTimed /\ [][NextTimed]_vars

\* ----------------------------------------------- the two calls: their spec
InitBoth ==
  /\ proto = "tcp"
  /\ count = 0
  /\ concurrency = 1
  /\ burst = FALSE
  /\ pingMessage = PING
  /\ timeout = 0
  /\ rpc = "called"
  /\ sem = [alloc |-> FALSE, value |-> 0, waiters |-> <<>>]
  /\ wpc = [k \in Attempts |-> "absent"]
  /\ sock = [k \in Attempts |-> "none"]
  /\ fut = [k \in Attempts |-> Pending]
  /\ pend = [k \in Attempts |-> "none"]
  /\ results = <<>>
  /\ appends = [k \in Attempts |-> 0]
  /\ retval = <<>>
  /\ now = 0
  /\ obs = [k \in Attempts |-> NoObs]
  /\ first = [k \in Attempts |-> Unobserved]
  /\ BothCalled
  /\ bconc \in [Runs -> 1..MaxConc]
  /\ TcpIdle
  /\ UdpIdle

NextBoth ==
  \/ \E r \in Runs : BothRunMany(r)
  \/ \E r \in Runs, i \in BothAttempts : BothWorkerStart(r, i)
  \/ \E r \in Runs, i \in BothAttempts : BothSemGranted(r, i)
  \/ \E r \in Runs, i \in BothAttempts, v \in {RTT, NaN} : BothPingDone(r, i, v)
  \/ \E r \in Runs, i \in BothAttempts : BothPingRaise(r, i)
  \/ \E r \in Runs : BothGatherReturn(r)
  \/ \E r \in Runs : BothGatherRaise(r)

SpecBoth == InitBoth /\ [][NextBoth]_vars

\* ----------------------------------------------------------- stream server
\* `reader.read(1024)`
ReadLimit == 1024

Take(b, n) == SubSeq(b, 1, Min(Len(b), n))

Drop(b, n) == SubSeq(b, Min(Len(b), n) + 1, Len(b))

\* what a client may write on one connection before it stops writing
ClientMessages ==
  {PING \o LF, HI \o LF, SP \o PING \o LF, <<>>, BAD \o LF, PING \o LF \o HI \o LF}

\* `if message == "PING": writer.write(b"PONG\n") ... else: writer.write(b"ERR\n")`
\* (handle_tcp, message already decoded and stripped)
TcpReply(message) == IF message = PING THEN PONG \o LF ELSE ERR \o LF

\* the server accepts connection c: start_server runs handle_tcp, which logs
\* the peer and suspends in `await reader.read(1024)`.
Accept(c) ==
  /\ lsock = "listening"
  /\ hpc[c] = "idle"
  /\ hpc' = [hpc EXCEPT ![c] = "read"]
  /\ sconn' = [sconn EXCEPT ![c] = "open"]
  /\ UNCHANGED <<runVars, udpVars, lsock, tsrv, got, cfull, cmsg, cstate, rbuf, reof, rexc,
                 sout, nread>>

\* the next k bytes of the client reach the server; an open transport feeds
\* them to the StreamReader, a closed one discards them.
Arrive(c, k) ==
  /\ hpc[c] # "idle"
  /\ cstate[c] = "open"
  /\ k \in 1..Len(cmsg[c])
  /\ cmsg' = [cmsg EXCEPT ![c] = SubSeq(@, k + 1, Len(@))]
  /\ rbuf' = IF sconn[c] = "open"
               THEN [rbuf EXCEPT ![c] = @ \o SubSeq(cmsg[c], 1, k)]
               ELSE rbuf
  /\ UNCHANGED <<runVars, udpVars, lsock, tsrv, got, cfull, cstate, hpc, sconn, reof, rexc,
                 sout, nread>>

\* the client has written everything and closes its end in order: the
\* server's reader is fed EOF.
ClientClose(c) ==
  /\ hpc[c] # "idle"
  /\ cstate[c] = "open"
  /\ cmsg[c] = <<>>
  /\ cstate' = [cstate EXCEPT ![c] = "closed"]
  /\ reof' = IF sconn[c] = "open" THEN [reof EXCEPT ![c] = TRUE] ELSE reof
  /\ UNCHANGED <<runVars, udpVars, lsock, tsrv, got, cfull, cmsg, hpc, sconn, rbuf, rexc,
                 sout, nread>>

\* the client disconnects abruptly: the transport reports connection_lost
\* with an exception, which closes it and is stored in the reader.
ClientReset(c) ==
  /\ hpc[c] # "idle"
  /\ cstate[c] = "open"
  /\ cstate' = [cstate EXCEPT ![c] = "reset"]
  /\ rexc' = IF sconn[c] = "open" THEN [rexc EXCEPT ![c] = TRUE] ELSE rexc
  /\ sconn' = [sconn EXCEPT ![c] = "closed"]
  /\ UNCHANGED <<runVars, udpVars, lsock, tsrv, got, cfull, cmsg, hpc, rbuf, reof, sout, nread>>

\* handle_tcp from the return of `await reader.read(1024)` to its next
\* await: read hands over what the buffer holds (at most 1024 bytes), or
\* b"" at EOF, or raises the stored connection error when nothing was
\* buffered.  Empty data: close.  Otherwise decode (UnicodeDecodeError ends
\* the handler), strip, compare, write the reply, drain, close.  After a
\* connection loss the write is discarded and drain raises, which ends the
\* handler as well.
HandleRead(c) ==
  /\ hpc[c] = "read"
  /\ rbuf[c] # <<>> \/ reof[c] \/ rexc[c]
  /\ LET data == Take(rbuf[c], ReadLimit) IN
       IF data = <<>> /\ rexc[c]
         THEN /\ hpc' = [hpc EXCEPT ![c] = "crashed"]
              /\ UNCHANGED <<rbuf, nread, got, sout, sconn>>
         ELSE /\ rbuf' = [rbuf EXCEPT ![c] = Drop(@, ReadLimit)]
              /\ nread' = [nread EXCEPT ![c] = @ + 1]
              /\ got' = [got EXCEPT ![c] = data]
              /\ IF data = <<>>
                   THEN /\ sconn' = [sconn EXCEPT ![c] = "closed"]
                        /\ hpc' = [hpc EXCEPT ![c] = "wait_closed"]
                        /\ UNCHANGED sout
                   ELSE IF ~Decodable(data)
                     THEN /\ hpc' = [hpc EXCEPT ![c] = "crashed"]
                          /\ UNCHANGED <<sout, sconn>>
                   ELSE IF rexc[c]
                     THEN /\ hpc' = [hpc EXCEPT ![c] = "crashed"]
                          /\ UNCHANGED <<sout, sconn>>
                   ELSE /\ sout' = [sout EXCEPT
                                      ![c] = Append(@, TcpReply(Strip(Decode(data))))]
                        /\ sconn' = [sconn EXCEPT ![c] = "closed"]
                        /\ hpc' = [hpc EXCEPT ![c] = "wait_closed"]
  /\ UNCHANGED <<runVars, udpVars, lsock, tsrv, cfull, cmsg, cstate, reof, rexc>>

\* `await writer.wait_closed()` returns and handle_tcp ends.
HandleClosed(c) ==
  /\ hpc[c] = "wait_closed"
  /\ hpc' = [hpc EXCEPT ![c] = "done"]
  /\ UNCHANGED <<runVars, udpVars, lsock, tsrv, got, cfull, cmsg, cstate, sconn, rbuf, reof,
                 rexc, sout, nread>>

\* handle_tcp ended with an exception and never called writer.close(): the
\* transport is closed only if and when the runtime does it (a done-callback
\* of newer asyncio versions, or the collection of the abandoned writer).
RuntimeClose(c) ==
  /\ hpc[c] = "crashed"
  /\ sconn[c] = "open"
  /\ sconn' = [sconn EXCEPT ![c] = "closed"]
  /\ UNCHANGED <<runVars, udpVars, lsock, tsrv, got, cfull, cmsg, cstate, hpc, rbuf, reof,
                 rexc, sout, nread>>

\* run_tcp_server is cancelled while it awaits server.serve_forever():
\* `except asyncio.CancelledError: server.close()` closes the listening
\* socket at once (serve_forever has closed it already on its way out), then
\* `await server.wait_closed()`.  Handlers of accepted connections are tasks
\* of their own and are not touched.
TcpServerCancelled ==
  /\ tsrv = "serving"
  /\ lsock' = "closed"
  /\ tsrv' = "wait_closed"
  /\ UNCHANGED <<runVars, udpVars, cfull, cmsg, cstate, hpc, sconn, rbuf, reof,
                 rexc, sout, nread, got>>

\* `await server.wait_closed()` returns (at once, or once the open
\* connections are gone, depending on the asyncio version) and `raise` ends
\* run_tcp_server with the CancelledError.
TcpServerClosed ==
  /\ tsrv = "wait_closed"
  /\ tsrv' = "cancelled"
  /\ UNCHANGED <<runVars, udpVars, cfull, cmsg, cstate, hpc, sconn, rbuf, reof,
                 rexc, sout, nread, got, lsock>>

\* the runner before run_many is called, with fixed arguments
RunIdle ==
  /\ proto = "tcp"
  /\ count = 0
  /\ concurrency = 1
  /\ burst = FALSE
  /\ pingMessage = PING
  /\ timeout = 0
  /\ first = [k \in Attempts |-> Unobserved]
  /\ RunCalled

\* run_tcp_server has started the server: it listens, nothing is accepted
TcpServerUp ==
  /\ cstate = [c \in Conns |-> "open"]
  /\ hpc = [c \in Conns |-> "idle"]
  /\ sconn = [c \in Conns |-> "none"]
  /\ rbuf = [c \in Conns |-> <<>>]
  /\ reof = [c \in Conns |-> FALSE]
  /\ rexc = [c \in Conns |-> FALSE]
  /\ sout = [c \in Conns |-> <<>>]
  /\ nread = [c \in Conns |-> 0]
  /\ got = [c \in Conns |-> <<>>]
  /\ lsock = "listening"
  /\ tsrv = "serving"

InitTcpServer ==
  /\ cfull \in [Conns -> ClientMessages]
  /\ cmsg = cfull
  /\ TcpServerUp
  /\ RunIdle
  /\ UdpIdle

NextTcpServer ==
  \/ \E c \in Conns : Accept(c)
  \/ \E c \in Conns : \E k \in 1..Len(cmsg[c]) : Arrive(c, k)
  \/ \E c \in Conns : ClientClose(c)
  \/ \E c \in Conns : ClientReset(c)
  \/ \E c \in Conns : HandleRead(c)
  \/ \E c \in Conns : HandleClosed(c)
  \/ \E c \in Conns : RuntimeClose(c)

SpecTcpServer == InitTcpServer /\ [][NextTcpServer]_vars

\* --------------------------------------------------------- datagram server
\* the payloads clients put into a datagram
DgramPayloads == {PING, HI, PING \o LF, <<>>, BAD}

\* `if message == "PING": self.transport.sendto(b"PONG", addr)
\*  else: self.transport.sendto(b"ERR", addr)` (message decoded and stripped)
UdpReply(message) == IF message = PING THEN PONG ELSE ERR

\* run_udp_server: `await loop.create_datagram_endpoint(...)` binds the
\* socket; PongUDP.connection_made: `self.transport = transport`; then
\* `await asyncio.Future()`
UdpConnectionMade ==
  /\ usrv = "starting"
  /\ utransport = "none"
  /\ utransport' = "bound"
  /\ usrv' = "serving"
  /\ UNCHANGED <<runVars, tcpVars, uready, dsent, dwire, handled, usent, udelivered>>

\* a client at address a sends one datagram to the bound server
ClientSendTo(a, data) ==
  /\ utransport = "bound"
  /\ dsent < MaxDgram
  /\ dsent' = dsent + 1
  /\ dwire' = dwire \cup {[id |-> dsent + 1, src |-> a, data |-> data]}
  /\ UNCHANGED <<runVars, tcpVars, usrv, uready, utransport, handled, usent, udelivered>>

\* a datagram_received whose decoding error takes the endpoint down
DatagramReceivedFatal(d) ==
  /\ utransport = "bound"
  /\ d \in dwire
  /\ dwire' = dwire \ {d}
  /\ handled' = Append(handled, d)
  /\ usent' = IF Decodable(d.data)
                THEN Append(usent, [to |-> d.src,
                                    data |-> UdpReply(Strip(Decode(d.data))),
                                    cause |-> d.id])
                ELSE usent
  /\ utransport' = IF Decodable(d.data) THEN utransport ELSE "closed"
  /\ UNCHANGED <<runVars, tcpVars, usrv, uready, dsent, udelivered>>

\* PongUDP.datagram_received(data, addr): `message = data.decode().strip()`
\* raises UnicodeDecodeError on undecodable bytes, which ends the callback
\* before any sendto (the event loop logs it); otherwise one sendto to addr.
DatagramReceived(d) ==
  /\ utransport = "bound"
  /\ d \in dwire
  /\ dwire' = dwire \ {d}
  /\ handled' = Append(handled, d)
  /\ usent' = IF Decodable(d.data)
                THEN Append(usent, [to |-> d.src,
                                    data |-> UdpReply(Strip(Decode(d.data))),
                                    cause |-> d.id])
                ELSE usent
  /\ UNCHANGED <<runVars, tcpVars, usrv, uready, utransport, dsent, udelivered>>

\* the j-th datagram the server sent reaches the address it was sent to
DeliverReply(j) ==
  /\ j \in 1..Len(usent)
  /\ j \notin udelivered
  /\ udelivered' = udelivered \cup {j}
  /\ UNCHANGED <<runVars, tcpVars, usrv, uready, utransport, dsent, dwire, handled, usent>>

\* a run_udp_server that returns from the finally block without yielding to
\* the event loop
UdpServerCancelledNoYield ==
  /\ usrv = "serving"
  /\ utransport' = "closing"
  /\ uready' = Append(uready, "connection_lost")
  /\ usrv' = "finished"
  /\ UNCHANGED <<runVars, tcpVars, dsent, dwire, handled, usent, udelivered>>

\* run_udp_server is cancelled while it awaits asyncio.Future(): `except
\* asyncio.CancelledError: pass`, `finally: transport.close()`, which stops
\* the reading of the socket and queues the transport's connection_lost
\* step (the one that closes the socket), then `await asyncio.sleep(0)`,
\* which queues the resumption of run_udp_server behind it.
UdpServerCancelled ==
  /\ usrv = "serving"
  /\ utransport' = "closing"
  /\ uready' = uready \o <<"connection_lost", "resume">>
  /\ usrv' = "sleep0"
  /\ UNCHANGED <<runVars, tcpVars, dsent, dwire, handled, usent, udelivered>>

\* the event loop runs the queued connection_lost step: the socket is closed
UdpConnectionLost ==
  /\ uready # <<>>
  /\ Head(uready) = "connection_lost"
  /\ uready' = Tail(uready)
  /\ utransport' = "closed"
  /\ UNCHANGED <<runVars, tcpVars, dsent, dwire, handled, usent, udelivered, usrv>>

\* the event loop resumes run_udp_server after sleep(0): it returns
UdpServerFinished ==
  /\ uready # <<>>
  /\ Head(uready) = "resume"
  /\ uready' = Tail(uready)
  /\ usrv' = "finished"
  /\ UNCHANGED <<runVars, tcpVars, dsent, dwire, handled, usent, udelivered,
                 utransport>>

InitUdpServer ==
  /\ utransport = "none"
  /\ dsent = 0
  /\ dwire = {}
  /\ handled = <<>>
  /\ usent = <<>>
  /\ udelivered = {}
  /\ usrv = "starting"
  /\ uready = <<>>
  /\ TcpIdle
  /\ RunIdle

NextUdpServer ==
  \/ UdpConnectionMade
  \/ \E a \in Addrs, data \in DgramPayloads : ClientSendTo(a, data)
  \/ \E d \in dwire : DatagramReceived(d)
  \/ \E j \in 1..MaxDgram : DeliverReply(j)

SpecUdpServer == InitUdpServer /\ [][NextUdpServer]_vars

\* ------------------------------------------------------------ either server
\* server.py's main starts run_tcp_server or run_udp_server; the server runs
\* until it is cancelled.  The clients send a PING, bytes that are not text,
\* or nothing, and may disconnect abruptly; a request reaches the stream
\* server whole, or its first byte ahead of the rest.
LifecycleRequests == {PING \o LF, BAD \o LF, <<>>}

LifecyclePayloads == {PING, BAD}

InitServers ==
  \/ /\ cfull \in [Conns -> LifecycleRequests]
     /\ cmsg = cfull
     /\ TcpServerUp
     /\ RunIdle
     /\ UdpIdle
  \/ InitUdpServer

NextServers ==
  \/ \E c \in Conns : Accept(c)
  \/ \E c \in Conns : \E k \in {1, Len(cmsg[c])} :
        (cmsg[c] = cfull[c] \/ k = Len(cmsg[c])) /\ Arrive(c, k)
  \/ \E c \in Conns : ClientClose(c)
  \/ \E c \in Conns : ClientReset(c)
  \/ \E c \in Conns : HandleRead(c)
  \/ \E c \in Conns : HandleClosed(c)
  \/ \E c \in Conns : RuntimeClose(c)
  \/ TcpServerCancelled
  \/ TcpServerClosed
  \/ UdpConnectionMade
  \/ \E a \in Addrs, data \in LifecyclePayloads : ClientSendTo(a, data)
  \/ \E d \in dwire : DatagramReceived(d)
  \/ \E j \in 1..MaxDgram : DeliverReply(j)
  \/ UdpServerCancelled
  \/ UdpConnectionLost
  \/ UdpServerFinished

SpecServers == InitServers /\ [][NextServers]_vars

\* ------------------------------------------- one ping against the servers
\* run_many(count = 1) against the server of the same transport, as the tests
\* test_tcp_server_single and test_udp_server_single run it: attempt 1 uses
\* connection 1, or address "A".  No timer fires and nothing fails to
\* connect in this specification.
LowerPing == <<112, 105, 110, 103>>

\* the texts a ping may be asked to send
Messages == {PING, SP \o PING, PING \o SP \o LF, HI, LowerPing, <<>>, PING \o SP \o HI}

\* str.encode(): UTF-8, which for the ASCII texts used here gives one byte
\* per code point, of the same value
Encode(s) == [k \in 1..Len(s) |-> s[k]]

\* `writer.write((message + "\n").encode())`
TcpRequest(text) == Encode(text \o LF)

\* `transport.sendto(message.encode())`
UdpRequest(text) == Encode(text)

InitPing ==
  /\ proto \in {"tcp", "udp"}
  /\ count = 1
  /\ concurrency = 1
  /\ burst \in BOOLEAN
  /\ pingMessage \in Messages
  /\ timeout = 0
  /\ first = [k \in Attempts |-> Unobserved]
  /\ RunCalled
  /\ cfull = [c \in Conns |-> IF c = 1 /\ proto = "tcp"
                                THEN TcpRequest(pingMessage) ELSE <<>>]
  /\ cmsg = cfull
  /\ cstate = [c \in Conns |-> "open"]
  /\ hpc = [c \in Conns |-> "idle"]
  /\ sconn = [c \in Conns |-> "none"]
  /\ rbuf = [c \in Conns |-> <<>>]
  /\ reof = [c \in Conns |-> FALSE]
  /\ rexc = [c \in Conns |-> FALSE]
  /\ sout = [c \in Conns |-> <<>>]
  /\ nread = [c \in Conns |-> 0]
  /\ got = [c \in Conns |-> <<>>]
  /\ lsock = IF proto = "tcp" THEN "listening" ELSE "none"
  /\ tsrv = IF proto = "tcp" THEN "serving" ELSE "off"
  /\ utransport = IF proto = "udp" THEN "bound" ELSE "none"
  /\ dsent = 0
  /\ dwire = {}
  /\ handled = <<>>
  /\ usent = <<>>
  /\ udelivered = {}
  /\ usrv = IF proto = "udp" THEN "serving" ELSE "off"
  /\ uready = <<>>

NextPing ==
  \/ RunMany
  \/ WorkerStart(1)
  \/ TcpConnected(1, TRUE)
  \/ sock[1] # "none" /\ Accept(1)
  \/ \E k \in 1..Len(cmsg[1]) : sock[1] # "none" /\ Arrive(1, k)
  \/ HandleRead(1)
  \/ HandleClosed(1)
  \/ sout[1] # <<>> /\ TcpRead(1, sout[1][1])
  \/ TcpClosed(1)
  \/ sock[1] = "closed" /\ ClientClose(1)
  \/ UdpEndpoint(1)
  \/ sock[1] = "open" /\ dsent = 0 /\ ClientSendTo("A", UdpRequest(pingMessage))
  \/ \E d \in dwire : DatagramReceived(d)
  \/ \E j \in 1..MaxDgram : DeliverReply(j)
  \/ \E j \in udelivered : UdpDatagramReceived(1, usent[j].data)
  \/ UdpResume(1)
  \/ GatherReturn

SpecPing == InitPing /\ [][NextPing]_vars

\* ------------------------------------------------------- runner: claims
\* attempts that have started their exchange and not finished it
InFlight == {i \in Attempts : wpc[i] \in {"connecting", "reading", "closing"}}

Finished == {i \in Attempts : wpc[i] \in {"done", "failed"}}

\* C1: once run_many is over it has returned a list of exactly count
\* entries, one appended by each of the count attempts, whatever the
\* outcomes of the attempts were.
C1_ReturnsExactlyCount ==
  (count >= 0 /\ rpc \in {"returned", "raised"}) =>
     /\ rpc = "returned"
     /\ Len(retval) = count
     /\ \A i \in Attempts : appends[i] = (IF i <= count THEN 1 ELSE 0)

\* C2: in throttled mode with a limit of at least 1, the number of attempts
\* in flight never exceeds the limit.
C2_InFlightBounded ==
  (~burst /\ concurrency >= 1) => Cardinality(InFlight) <= concurrency

C2_Witness ==
  /\ ~burst
  /\ concurrency = 2
  /\ count = 3
  /\ Cardinality(InFlight) = 2
  /\ \E i \in Attempts : wpc[i] = "acquire"

\* C3: every failure of an attempt becomes the failure sentinel: no attempt
\* ends with an exception and none raises out of run_many.
C3_FailuresBecomeSentinel ==
  /\ \A i \in Attempts : wpc[i] # "failed" /\ pend[i] # "exc"
  /\ rpc # "raised"

\* C4: in burst mode no attempt's start is gated: a task that has not
\* started can always start its exchange at once, whatever the other
\* attempts are doing and whatever concurrency is; nothing ever queues.
C4_BurstNoAdmissionControl ==
  burst =>
    \A i \in Attempts :
      /\ wpc[i] \notin {"acquire", "granted"}
      /\ wpc[i] = "new" => ENABLED (WorkerStart(i) /\ wpc'[i] = "connecting")

C4_Witness ==
  /\ burst
  /\ count = MaxCount
  /\ concurrency = 1
  /\ InFlight = 1..count

\* C5: when the caller has control again, every attempt has been started
\* and has finished.
C5_NoReturnBeforeAllFinished ==
  rpc \in {"returned", "raised"} =>
    \A i \in Attempts : i <= count => i \in Finished

\* C6: with count = 0 run_many returns the empty list and touches nothing:
\* no task, no semaphore, no socket, no ping, no result.
C6_ZeroCountNoEffect ==
  count = 0 =>
    /\ rpc \in {"called", "returned"}
    /\ retval = <<>>
    /\ results = <<>>
    /\ ~sem.alloc
    /\ \A i \in Attempts :
         wpc[i] = "absent" /\ sock[i] = "none" /\ appends[i] = 0

C6_Witness == count = 0 /\ ~burst /\ rpc = "returned"

\* C19: under fair scheduling, with timers that fire, every call of
\* run_many eventually returns, whatever the peers do.  No step of the
\* runner can be repeated for ever, so this says: as long as run_many has
\* not returned, some step of it, of its tasks, of a timer or of a peer is
\* still to come.
C19_RunManyEventuallyReturns == rpc = "returned" \/ ENABLED <<Next>>_vars

\* attempts that can take a step or are inside their ping
Runnable == {i \in Attempts : wpc[i] \in {"new", "granted"}} \cup InFlight

\* C20: out-of-range arguments are normalised.  Throttled with
\* concurrency <= 0: at most one attempt is in flight, and the attempts
\* never all wait for a permit, so each of the count attempts gets its turn
\* and finishes.  Negative count: run_many returns the empty list and
\* creates no task, semaphore, socket or result.
C20_ArgumentsNormalised ==
  /\ (~burst /\ concurrency <= 0) =>
        /\ Cardinality(InFlight) <= 1
        /\ (rpc # "called" /\ \E i \in 1..count : i \notin Finished) => Runnable # {}
        /\ rpc = "returned" => Len(retval) = Max(count, 0)
  /\ count < 0 =>
        /\ rpc \in {"called", "returned"}
        /\ retval = <<>> /\ results = <<>> /\ ~sem.alloc
        /\ \A i \in Attempts : wpc[i] = "absent" /\ sock[i] = "none"

C20_Witness ==
  /\ ~burst
  /\ concurrency < 0
  /\ count = MaxCount
  /\ rpc = "returned"
  /\ Len(retval) = MaxCount

\* ------------------------------------------------- stream server: claims
\* the handler of connection c is past its read
Handled(c) == hpc[c] \in {"wait_closed", "done", "crashed"}

\* the client of connection c wrote text (decodable bytes)
SentText(c) == cfull[c] # <<>> /\ Decodable(cfull[c])

\* C7: a client that sends PING (with its line terminator) gets PONG and a
\* line terminator, one that sends any other text gets ERR and a line
\* terminator, one that closes without sending gets nothing and its handler
\* finishes; however the client's bytes are split into arrivals.
C7_StreamReplyMatchesRequest ==
  \A c \in Conns :
    (Handled(c) /\ cstate[c] # "reset") =>
       /\ (SentText(c) /\ Strip(Decode(cfull[c])) = PING) => sout[c] = <<PONG \o LF>>
       /\ (SentText(c) /\ Strip(Decode(cfull[c])) # PING) => sout[c] = <<ERR \o LF>>
       /\ cfull[c] = <<>> => (sout[c] = <<>> /\ hpc[c] # "crashed")

\* C8: the handler reads at most once, writes at most one reply, and has
\* closed the connection whenever it is past its read or over, on every
\* path; what arrives after the first read is never read.
C8_OneShotThenClosed ==
  \A c \in Conns :
    /\ nread[c] <= 1
    /\ Len(sout[c]) <= 1
    /\ Handled(c) => sconn[c] = "closed"

\* ----------------------------------------------- datagram server: claims
\* the sendto calls caused by the datagram with identity id
RepliesTo(id) == {j \in 1..Len(usent) : usent[j].cause = id}

\* what a client is to get back for a payload: PONG for PING, ERR otherwise
ExpectedReply(data) ==
  IF Decodable(data) /\ Strip(Decode(data)) = PING THEN PONG ELSE ERR

\* the replies that have reached address a
Inbox(a) == {j \in udelivered : usent[j].to = a}

\* C9: every datagram the server has received is answered with exactly one
\* reply, addressed to the sender of that datagram and carrying the
\* classification of that datagram's own payload; no client gets a reply
\* to a datagram of another client.
C9_RepliesGoToSender ==
  /\ \A k \in 1..Len(handled) :
       /\ Cardinality(RepliesTo(handled[k].id)) = 1
       /\ \A j \in RepliesTo(handled[k].id) :
            /\ usent[j].to = handled[k].src
            /\ usent[j].data = ExpectedReply(handled[k].data)
  /\ \A a \in Addrs : \A j \in Inbox(a) :
       \E k \in 1..Len(handled) :
         handled[k].id = usent[j].cause /\ handled[k].src = a

\* C10: the number of replies sent equals the number of datagrams received,
\* one for each, whatever the payload, and no reply ends in a line terminator.
C10_OneReplyPerDatagram ==
  /\ Len(usent) = Len(handled)
  /\ \A k \in 1..Len(handled) : Cardinality(RepliesTo(handled[k].id)) = 1
  /\ \A j \in 1..Len(usent) : usent[j].data \in {PONG, ERR}

OutcomeOf(e) == IF e.ev = "reply" /\ e.text = PONG THEN RTT ELSE NaN

\* C13: the outcome of a udp attempt is decided by the first event alone
\* (reply, receive error or timeout): the completion cell is resolved by
\* that event, and what udp_ping returns is what that event stands for.
C13_FirstEventDecides ==
  \A i \in Attempts :
     first[i].ev \notin {"none", "unobserved"} =>
        /\ fut[i].kind # "pending"
        /\ obs[i].out # "none" => obs[i].out = OutcomeOf(first[i])

\* --------------------------------------------------- timed ping: claims
\* attempts of udp_ping that have returned without any reply datagram
\* having reached them
NoReplyCame == {i \in Attempts : /\ proto = "udp"
                                  /\ obs[i].out # "none"
                                  /\ first[i].ev \notin {"reply", "badreply"}}

\* C14 as stated: a udp_ping to which no reply datagram ever comes returns
\* the sentinel, and not before the timeout has elapsed since it began.
C14_NoReplyWaitsFullTimeout ==
  \A i \in NoReplyCame :
     obs[i].out = NaN /\ obs[i].ret - obs[i].start >= timeout

\* C14 amended: a udp_ping to which neither a reply datagram nor a receive
\* error comes (and whose socket could be created) returns the sentinel,
\* and not before the timeout has elapsed since it began; when a receive
\* error is reported or the socket cannot be created it returns the
\* sentinel as well, possibly at once.
C14_SilenceWaitsFullTimeout ==
  \A i \in NoReplyCame :
     /\ obs[i].out = NaN
     /\ first[i].ev = "timeout" => obs[i].ret - obs[i].start >= timeout

C14_Witness ==
  \E i \in NoReplyCame :
     first[i].ev = "timeout" /\ timeout = MaxTimeout /\ obs[i].ret = obs[i].start + timeout

\* C17: the start timestamp of a ping is taken after its connection or
\* socket has been established (and before the request is sent), the end
\* timestamp on receipt of the reply, so the RTT leaves establishment out.
C17_StartAfterEstablished ==
  \A i \in Attempts :
     obs[i].out = RTT =>
        /\ obs[i].conn <= obs[i].start
        /\ obs[i].start <= obs[i].recv

\* --------------------------------------------- ping and server: claims
\* the replies the server gave to the ping, whichever transport it used
ServerReplies ==
  IF proto = "tcp" THEN {Strip(sout[1][k]) : k \in 1..Len(sout[1])}
  ELSE {usent[k].data : k \in 1..Len(usent)}

\* C11: against a healthy server, with no timeout and no error, the ping
\* returns an RTT if and only if its message, trimmed, is exactly PING; for
\* every other message the server replies ERR and the ping returns NaN.
C11_RttIffPing ==
  rpc = "returned" =>
     /\ retval = <<IF Strip(pingMessage) = PING THEN RTT ELSE NaN>>
     /\ ServerReplies = {IF Strip(pingMessage) = PING THEN PONG ELSE ERR}

\* ------------------------------------------------ server lifecycle: claims
\* C15: once a cancelled server's coroutine has finished, its listening or
\* bound socket is closed (so the port can be bound again) and no further
\* connection or datagram is accepted, whether or not exchanges were in
\* flight when it was cancelled.
C15_CancelledServerReleasesSocket ==
  /\ tsrv = "cancelled" =>
        /\ lsock = "closed"
        /\ \A c \in Conns : ~ENABLED Accept(c)
  /\ usrv = "finished" =>
        /\ utransport = "closed"
        /\ \A d \in dwire : ~ENABLED DatagramReceived(d)

C15_Witness ==
  /\ usrv = "finished"
  /\ handled # <<>>
  /\ dwire # {}

\* the request the server took from connection c is a well-formed PING
ReadPing(c) == nread[c] > 0 /\ Decodable(got[c]) /\ Strip(Decode(got[c])) = PING

BothInFlight(r) == {i \in BothAttempts : bwpc[r][i] = "flight"}

\* C18: two throttled run_many calls interleaved on one event loop share
\* neither permits nor result lists: each call ends by returning exactly
\* its own count outcomes, one of each of its tasks and none of the other
\* call, and each keeps its own in-flight bound.
C18_CallsAreIndependent ==
  \A r \in Runs :
     /\ Cardinality(BothInFlight(r)) <= Limit(bconc[r])
     /\ \A k \in 1..Len(bresults[r]) : bresults[r][k].run = r
     /\ brpc[r] \in {"returned", "raised"} =>
           /\ brpc[r] = "returned"
           /\ Len(bret[r]) = BothCount
           /\ {bret[r][k].task : k \in 1..Len(bret[r])} = BothAttempts
           /\ \A k \in 1..Len(bret[r]) : bret[r][k].run = r

====
